---------------------------- MODULE Spec2Model ----------------------------
(***************************************************************************)
(* Model of the 5minutesofharmony backend: the per-user action cooldown    *)
(* (apps/Auth) and the ordered note table edited by change_pitch and       *)
(* combine_pitch (apps/SheetMusic).                                        *)
(*                                                                         *)
(* Time is counted in clock units of 1/Res second, so that instants that   *)
(* are not a whole number of seconds apart can be told apart.              *)
(***************************************************************************)
EXTENDS Integers, Sequences, FiniteSets, TLC

VARIABLES
    now,        \* the clock, timezone.now(), in units of 1/Res second
    last_used,  \* the Profile table: user -> NoProfile | NULL | time of last use
    notes,      \* the Note table: pk -> row, for the rows that exist
    resp,       \* the response of the last request served
    pc,         \* the concurrent use_action requests in flight
    merging,    \* the concurrent combine_pitch requests in flight
    measures,   \* the Measure table: the indices of the rows that exist
    users,      \* the User table: username -> number of rows with that username
    sessions    \* the usernames that hold a session cookie

vars == <<now, last_used, notes, resp, pc, merging, measures, users, sessions>>

----------------------------------------------------------------------------
(* Bounds and program constants *)

\* settings.ACTION_TICK_SECONDS, as the test of the refill sets it
ACTION_TICK_SECONDS == 1
\* clock units per second
Res == 2
\* last clock reading of a run
MaxTime == 2
\* longest note_id_list of a combine_pitch request
MaxIds == 2
\* concurrent use_action requests
NProcs == 2
\* constants.TOTAL_MEASURES, the number of Measures fill_data creates
TOTAL_MEASURES == 2
\* fill_data: for n in range(4)
NOTES_PER_MEASURE == 4
\* fill_data: duration=4
REST_DURATION == 4

Users == {"u1", "u2"}
\* the user whose requests Spec follows
Client == {"u1"}
Procs == 1..NProcs
Measures == 0..(TOTAL_MEASURES - 1)

\* a Profile whose last_used is NULL, and a user without Profile row (times are >= 0)
NULL == 0 - 1
NoProfile == 0 - 2

\* the tick in clock units
TickUnits == ACTION_TICK_SECONDS * Res

----------------------------------------------------------------------------
(* Auth: the two availability predicates *)

\* int(x) of Python for the rational n/d, d > 0: truncation toward zero
IntTrunc(n, d) == IF n >= 0 THEN n \div d ELSE -((-n) \div d)

Max(a, b) == IF a >= b THEN a ELSE b

\* Profile.has_action, evaluated at clock reading t
has_action(lu, t) ==
    IF lu = NULL THEN TRUE
    ELSE (t - lu) >= TickUnits

time_until_next_action_from_epoch(lu, t) ==
    IF lu = NoProfile THEN 0
    ELSE Max(0, IntTrunc(TickUnits - (t - Max(lu, 0)), Res))

\* time_until_next_action: whole seconds, for the profile state lu at time t
time_until_next_action(lu, t) ==
    IF lu = NoProfile \/ lu = NULL THEN 0
    ELSE Max(0, IntTrunc(TickUnits - (t - lu), Res))

\* user_has_action
user_has_action(lu, t) == time_until_next_action(lu, t) = 0

\* users_list: the has_action flag reported for each user; getattr(u,
\* "profile", None) is None for a user without Profile row
users_list(profiles, t) ==
    [u \in DOMAIN profiles |->
        IF profiles[u] = NoProfile THEN TRUE ELSE has_action(profiles[u], t)]

\* Profile.objects.get_or_create(user=user): the stored last_used afterwards
get_or_create(lu) == IF lu = NoProfile THEN NULL ELSE lu

----------------------------------------------------------------------------
(* SheetMusic: the Note table *)

NumNotes == TOTAL_MEASURES * NOTES_PER_MEASURE

\* pitches held by stored notes
Pitches == {"rest", "C4"}

\* constants.PITCHES, the pitches validate_change accepts
PITCHES == {"C4"}

\* the pitch of a change_pitch request: any string, of which "X9" stands for
\* those that name no pitch
PitchInputs == Pitches \cup {"X9"}

\* the table fill_data leaves: per Measure four uninitialized rests, which
\* OrderedModel.save numbers 0,1,2,3 within their Measure
FilledNotes ==
    [k \in 1..NumNotes |->
        [measure |-> (k - 1) \div NOTES_PER_MEASURE,
         order |-> (k - 1) % NOTES_PER_MEASURE,
         duration |-> REST_DURATION,
         pitch |-> "rest",
         initialized |-> FALSE]]

\* the field names of Note (order and id come from OrderedModel and Model)
NoteFields == {"id", "measure", "measure_id", "order", "duration", "pitch", "initialized"}

\* the keyword arguments combine_pitch passes to Note.objects.create
CreateKwargs == {"measure", "pitch", "duration", "weak"}

\* Model.__init__ raises TypeError on a keyword that names no field
CreateRaises == ~(CreateKwargs \subseteq NoteFields)

\* the primary keys a request names: those of the rows of tbl, and 0, which
\* stands for every key without a row
RequestIds(tbl) == DOMAIN tbl \cup {0}

\* note_id_list values of at most n ids
IdListsUpTo(tbl, n) == UNION {[1..k -> RequestIds(tbl)] : k \in 0..n}

\* note_id_list values
IdLists(tbl) == IdListsUpTo(tbl, MaxIds)

\* Note.objects.get(id=id) raises Note.DoesNotExist for a missing row
AllExist(tbl, ids) == \A k \in 1..Len(ids) : ids[k] \in DOMAIN tbl

\* note_list: the instances fetched, each holding the row as it was read
NoteList(tbl, ids) ==
    [k \in 1..Len(ids) |->
        [pk |-> ids[k],
         measure |-> tbl[ids[k]].measure,
         order |-> tbl[ids[k]].order,
         duration |-> tbl[ids[k]].duration,
         pitch |-> tbl[ids[k]].pitch]]

TooFew_off_by_one(notes_len) == notes_len < 1

\* if notes_len < 2
TooFew(notes_len) == notes_len < 2

\* min(note_position)
MinPos(note_list) ==
    CHOOSE m \in {note_list[k].order : k \in 1..Len(note_list)} :
        \A k \in 1..Len(note_list) : m <= note_list[k].order

DeleteNote_any_measure(tbl, inst) ==
    [i \in DOMAIN tbl \ {inst.pk} |->
        IF tbl[i].order > inst.order
        THEN [tbl[i] EXCEPT !.order = @ - 1]
        ELSE tbl[i]]

\* OrderedModel.delete of one instance: the rows of its Measure whose order is
\* above the instance's (in-memory) order move down by one, then its row goes
DeleteNote(tbl, inst) ==
    [i \in DOMAIN tbl \ {inst.pk} |->
        IF tbl[i].measure = inst.measure /\ tbl[i].order > inst.order
        THEN [tbl[i] EXCEPT !.order = @ - 1]
        ELSE tbl[i]]

\* for note in note_list: note.delete()
RECURSIVE DeleteAll(_, _)
DeleteAll(tbl, note_list) ==
    IF note_list = <<>> THEN tbl
    ELSE DeleteAll(DeleteNote(tbl, Head(note_list)), Tail(note_list))

\* duration * notes_len
CombinedDuration(note_list) == note_list[1].duration * Len(note_list)

\* OrderedModel.save of a row without order: one more than the largest order
\* of its Measure, or 0 in a Measure without rows
NextOrder(tbl, measure) ==
    LET taken == {tbl[i].order : i \in {j \in DOMAIN tbl : tbl[j].measure = measure}}
    IN  IF taken = {} THEN 0
        ELSE (CHOOSE x \in taken : \A y \in taken : y <= x) + 1

\* Note.objects.create of a row with key pk
CreateNote(tbl, pk, measure, pitch, duration, initialized) ==
    [i \in DOMAIN tbl \cup {pk} |->
        IF i = pk
        THEN [measure |-> measure, order |-> NextOrder(tbl, measure),
              duration |-> duration, pitch |-> pitch, initialized |-> initialized]
        ELSE tbl[i]]

\* Note.objects.create of the combined note, under a key never used before
Created(tbl, measure, pitch, duration) ==
    LET pk == CHOOSE k \in 1..(NumNotes + Cardinality(DOMAIN tbl) + 1) :
                  k > NumNotes /\ k \notin DOMAIN tbl
    IN  CreateNote(tbl, pk, measure, pitch, duration, FALSE)

\* fill_data: for n in range(4): Note.objects.create(pitch="rest", ...), n
\* turns being left. Rows are told apart by their content: the keys of a
\* table filled anew are counted from 1 again
RECURSIVE FillMeasure(_, _, _)
FillMeasure(tbl, index, n) ==
    IF n = 0 THEN tbl
    ELSE FillMeasure(CreateNote(tbl, Cardinality(DOMAIN tbl) + 1, index,
                                "rest", REST_DURATION, FALSE),
                     index, n - 1)

\* fill_data: for index in range(TOTAL_MEASURES), from index on
RECURSIVE FillFrom(_, _)
FillFrom(score, index) ==
    IF index >= TOTAL_MEASURES THEN score
    ELSE FillFrom([measures |-> score.measures \cup {index},
                   notes |-> FillMeasure(score.notes, index, NOTES_PER_MEASURE)],
                  index + 1)

fill_data_keeping(ms, tbl) == FillFrom([measures |-> ms, notes |-> tbl], 0)

\* fill_data: every Note and every Measure is deleted, then the score is
\* created
fill_data(ms, tbl) ==
    FillFrom([measures |-> ms \ ms,
              notes |-> [i \in DOMAIN tbl \ DOMAIN tbl |-> tbl[i]]], 0)

\* the table a combine_pitch request leaves once it has passed its checks:
\* the deletions run, then the creation of the combined note raises
Combined(tbl, note_list) ==
    LET deleted == DeleteAll(tbl, note_list)
    IN  IF CreateRaises THEN deleted
        ELSE Created(deleted, note_list[1].measure, note_list[1].pitch,
                     CombinedDuration(note_list))

----------------------------------------------------------------------------
(* Requests and responses *)

\* a response: HTTP status and what went wrong ("none" when nothing did)
Outcome(status, error) == [status |-> status, error |-> error]

\* the last request served. op, status and error are the request and its
\* response; the other fields record, for the properties, what held when it
\* was served: n the length of note_id_list, avail the availability check of
\* the view, found whether every id named a row, and whether the request
\* changed the Note table or the Profile table
Served(op, out, n, avail, found, notes_changed, gate_changed) ==
    [op |-> op, status |-> out.status, error |-> out.error, n |-> n,
     avail |-> avail, found |-> found,
     notes_changed |-> notes_changed, gate_changed |-> gate_changed]

NoResponse == Served("none", Outcome(0, "none"), 0, TRUE, TRUE, FALSE, FALSE)

Idle == [st |-> "idle", user |-> "none", seen |-> NULL]

\* a combine_pitch request in flight: st is where it stands, ids its
\* note_id_list, list the note_list fetched so far, k the index of the next id
\* to fetch or of the next instance to delete, status the response once sent
Merging(st, user, ids, list, k, status) ==
    [st |-> st, user |-> user, ids |-> ids, list |-> list, k |-> k, status |-> status]

NoMerge == Merging("idle", "none", <<>>, <<>>, 0, 0)

\* the request has answered: its instances are dropped
Answered(m, status) == Merging("done", m.user, m.ids, <<>>, 0, status)

\* the instance Note.objects.get(id=id) returns: the row as it is read
Instance(tbl, id) ==
    [pk |-> id,
     measure |-> tbl[id].measure,
     order |-> tbl[id].order,
     duration |-> tbl[id].duration,
     pitch |-> tbl[id].pitch]

\* the end of the fetch loop: if notes_len < 2 the request answers 400,
\* otherwise the deletions start
Fetched(m, list) ==
    IF TooFew(Len(list)) THEN Answered(m, 400)
    ELSE Merging("deleting", m.user, m.ids, list, 1, 0)

use_action_extending(lu, t) ==
    IF ~has_action(lu, t)
    THEN [out |-> Outcome(400, "NotAvailable"), last_used |-> t]
    ELSE [out |-> Outcome(200, "none"), last_used |-> t]

\* the username and password of a register request; "" is a field left out
Usernames == Users \cup {""}

Passwords == {"", "pw"}

register_unchecked(rows, profiles, sess, username, password) ==
    IF username = "" \/ password = ""
    THEN [out |-> Outcome(400, "Required"),
          users |-> rows, last_used |-> profiles, sessions |-> sess]
    ELSE [out |-> Outcome(201, "none"),
          users |-> [rows EXCEPT ![username] = @ + 1],
          last_used |-> [profiles EXCEPT ![username] = get_or_create(NULL)],
          sessions |-> sess \cup {username}]

\* register_view on the User table rows, the Profile table profiles and the
\* sessions sess: the response and the three as it leaves them. create_user
\* fires the receiver that creates the Profile, with last_used NULL, and
\* login gives the new user a session
register(rows, profiles, sess, username, password) ==
    IF username = "" \/ password = ""
    THEN [out |-> Outcome(400, "Required"),
          users |-> rows, last_used |-> profiles, sessions |-> sess]
    ELSE IF rows[username] >= 1
    THEN [out |-> Outcome(400, "Exists"),
          users |-> rows, last_used |-> profiles, sessions |-> sess]
    ELSE [out |-> Outcome(201, "none"),
          users |-> [rows EXCEPT ![username] = @ + 1],
          last_used |-> [profiles EXCEPT ![username] = get_or_create(NULL)],
          sessions |-> sess \cup {username}]

\* use_action for a Profile whose last_used is lu (after get_or_create), at
\* time t: the response and the last_used saved
use_action(lu, t) ==
    IF ~has_action(lu, t)
    THEN [out |-> Outcome(400, "NotAvailable"), last_used |-> lu]
    ELSE [out |-> Outcome(200, "none"), last_used |-> t]

\* change_pitch: the pitch is assigned to the fetched instance, which is
\* never saved, so the table is left as it is
change_pitch(lu, t, tbl, note_id, pitch) ==
    IF ~user_has_action(lu, t)
    THEN [out |-> Outcome(400, "Cooldown"), notes |-> tbl]
    ELSE IF note_id \notin DOMAIN tbl
    THEN [out |-> Outcome(500, "DoesNotExist"), notes |-> tbl]
    ELSE LET note == [tbl[note_id] EXCEPT !.pitch = pitch]
         IN  [out |-> Outcome(200, "none"), notes |-> tbl]

combine_pitch_ungated(lu, t, tbl, ids) ==
    IF ~AllExist(tbl, ids)
    THEN [out |-> Outcome(500, "DoesNotExist"), notes |-> tbl]
    ELSE IF TooFew(Len(NoteList(tbl, ids)))
    THEN [out |-> Outcome(400, "TooFew"), notes |-> tbl]
    ELSE [out |-> Outcome(500, "TypeError"),
          notes |-> Combined(tbl, NoteList(tbl, ids))]

\* combine_pitch: the response and the table left. Past the checks the
\* deletions run and Note.objects.create raises; insert_at, which OrderedModel
\* does not define, would raise next
combine_pitch(lu, t, tbl, ids) ==
    IF ~user_has_action(lu, t)
    THEN [out |-> Outcome(400, "Cooldown"), notes |-> tbl]
    ELSE IF ~AllExist(tbl, ids)
    THEN [out |-> Outcome(500, "DoesNotExist"), notes |-> tbl]
    ELSE IF TooFew(Len(NoteList(tbl, ids)))
    THEN [out |-> Outcome(400, "TooFew"), notes |-> tbl]
    ELSE [out |-> Outcome(500, IF CreateRaises THEN "TypeError" ELSE "AttributeError"),
          notes |-> Combined(tbl, NoteList(tbl, ids))]

----------------------------------------------------------------------------
(* Init *)

\* the server starts on the score fill_data left; every user has the Profile
\* row the post_save receiver created, with last_used NULL
Init ==
    /\ now = 0
    /\ last_used = [u \in Users |-> NULL]
    /\ notes = FilledNotes
    /\ resp = NoResponse
    /\ pc = [p \in Procs |-> Idle]
    /\ merging = [p \in Procs |-> NoMerge]
    /\ measures = Measures
    /\ users = [u \in Users |-> 1]
    /\ sessions = Users

\* a score whose first Measure already holds pitches other than "rest": pitch is
\* a free CharField of the stored rows
InitData ==
    /\ now = 0
    /\ last_used = [u \in Users |-> NULL]
    /\ notes \in {[k \in 1..NumNotes |->
                    IF k <= NOTES_PER_MEASURE
                    THEN [FilledNotes[k] EXCEPT !.pitch = f[k]]
                    ELSE FilledNotes[k]] : f \in [1..NOTES_PER_MEASURE -> Pitches]}
    /\ resp = NoResponse
    /\ pc = [p \in Procs |-> Idle]
    /\ merging = [p \in Procs |-> NoMerge]
    /\ measures = Measures
    /\ users = [u \in Users |-> 1]
    /\ sessions = Users

\* a database on which fill_data has run before, perhaps under another
\* TOTAL_MEASURES: some of the Measures 0 .. TOTAL_MEASURES exist, those of
\* the score with their four rests
InitFill ==
    /\ now = 0
    /\ last_used = [u \in Users |-> NULL]
    /\ measures \in SUBSET (0..TOTAL_MEASURES)
    /\ notes = [k \in {j \in DOMAIN FilledNotes : FilledNotes[j].measure \in measures}
                  |-> FilledNotes[k]]
    /\ resp = NoResponse
    /\ pc = [p \in Procs |-> Idle]
    /\ merging = [p \in Procs |-> NoMerge]
    /\ users = [u \in Users |-> 1]
    /\ sessions = Users

\* a server on which nobody has registered yet
InitReg ==
    /\ now = 0
    /\ last_used = [u \in Users |-> NoProfile]
    /\ notes = FilledNotes
    /\ resp = NoResponse
    /\ pc = [p \in Procs |-> Idle]
    /\ merging = [p \in Procs |-> NoMerge]
    /\ measures = Measures
    /\ users = [u \in Users |-> 0]
    /\ sessions = {}

\* as Init, but a user may have no Profile row (a user created before the
\* receiver existed), the case _safe_get_profile and get_or_create provide for
InitGate ==
    /\ now = 0
    /\ last_used \in [Users -> {NoProfile, NULL}]
    /\ notes = FilledNotes
    /\ resp = NoResponse
    /\ pc = [p \in Procs |-> Idle]
    /\ merging = [p \in Procs |-> NoMerge]
    /\ measures = Measures
    /\ users = [u \in Users |-> 1]
    /\ sessions = Users

----------------------------------------------------------------------------
(* Actions *)

\* the clock advances
Advance ==
    /\ now < MaxTime
    /\ now' = now + 1
    /\ UNCHANGED <<last_used, notes, resp, pc, merging, measures, users, sessions>>

UseAction_shared(u) ==
    LET lu == get_or_create(last_used[u])
        r == use_action(lu, now)
    IN  /\ last_used' = [v \in Users |-> r.last_used]
        /\ resp' = Served("use_action", r.out, 0, has_action(lu, now), TRUE,
                          FALSE, r.last_used # last_used[u])
        /\ UNCHANGED <<now, notes, pc, merging, measures, users, sessions>>

\* GET users_list: reads every Profile and writes nothing
UsersList ==
    /\ UNCHANGED <<now, last_used, notes, pc, merging, measures, users, sessions>>
    /\ resp' = Served("users_list", Outcome(200, "none"), 0, TRUE, TRUE,
                      FALSE, last_used' # last_used)

\* POST use_action by user u, served without interruption
UseAction(u) ==
    LET lu == get_or_create(last_used[u])
        r == use_action(lu, now)
    IN  /\ last_used' = [last_used EXCEPT ![u] = r.last_used]
        /\ resp' = Served("use_action", r.out, 0, has_action(lu, now), TRUE,
                          FALSE, r.last_used # last_used[u])
        /\ UNCHANGED <<now, notes, pc, merging, measures, users, sessions>>

ServeEdit_consuming(op, r, n, avail, found) ==
    /\ notes' = r.notes
    /\ last_used' = [u \in Users |-> IF u \in Client THEN now ELSE last_used[u]]
    /\ UNCHANGED <<now, pc, merging, measures, users, sessions>>
    /\ resp' = Served(op, r.out, n, avail, found, r.notes # notes,
                      last_used' # last_used)

\* an edit request is served: r is what the view returns and leaves
ServeEdit(op, r, n, avail, found) ==
    /\ notes' = r.notes
    /\ UNCHANGED <<now, last_used, pc, merging, measures, users, sessions>>
    /\ resp' = Served(op, r.out, n, avail, found, r.notes # notes,
                      last_used' # last_used)

\* PATCH change_pitch by user u
ChangePitch(u, note_id, pitch) ==
    ServeEdit("change_pitch",
              change_pitch(last_used[u], now, notes, note_id, pitch),
              0, user_has_action(last_used[u], now), note_id \in DOMAIN notes)

\* POST combine_pitch by user u with note_id_list ids
CombinePitch(u, ids) ==
    ServeEdit("combine_pitch",
              combine_pitch(last_used[u], now, notes, ids),
              Len(ids), user_has_action(last_used[u], now), AllExist(notes, ids))

\* use_action of request p, first part: the Profile is fetched (or created)
\* and has_action is read
CheckAction(p, u) ==
    LET lu == get_or_create(last_used[u])
    IN  /\ pc[p].st = "idle"
        /\ last_used' = [last_used EXCEPT ![u] = lu]
        /\ pc' = [pc EXCEPT ![p] =
                    [st |-> IF use_action(lu, now).out.status = 200
                            THEN "checked" ELSE "refused",
                     user |-> u, seen |-> lu]]
        /\ UNCHANGED <<now, notes, resp, merging, measures, users, sessions>>

\* use_action of request p, second part: last_used = timezone.now(); save()
SaveAction(p) ==
    /\ pc[p].st = "checked"
    /\ last_used' = [last_used EXCEPT ![pc[p].user] = now]
    /\ pc' = [pc EXCEPT ![p].st = "consumed"]
    /\ UNCHANGED <<now, notes, resp, merging, measures, users, sessions>>

\* combine_pitch of request p, first part: user_has_action is read and
\* note_id_list taken from the request
StartMerge(p, u, ids) ==
    /\ merging[p].st = "idle"
    /\ merging' = [merging EXCEPT ![p] =
            IF ~user_has_action(last_used[u], now)
            THEN Answered(Merging("idle", u, ids, <<>>, 0, 0), 400)
            ELSE IF ids = <<>>
            THEN Fetched(Merging("idle", u, ids, <<>>, 0, 0), <<>>)
            ELSE Merging("resolving", u, ids, <<>>, 1, 0)]
    /\ UNCHANGED <<now, last_used, notes, resp, pc, measures, users, sessions>>

\* one turn of the fetch loop: Note.objects.get(id=id) raises for a missing
\* row, and otherwise its instance joins note_list
GetNote(p) ==
    LET m == merging[p]
        id == m.ids[m.k]
    IN  /\ m.st = "resolving"
        /\ merging' = [merging EXCEPT ![p] =
                IF id \notin DOMAIN notes THEN Answered(m, 500)
                ELSE IF m.k = Len(m.ids)
                THEN Fetched(m, Append(m.list, Instance(notes, id)))
                ELSE Merging("resolving", m.user, m.ids,
                             Append(m.list, Instance(notes, id)), m.k + 1, 0)]
        /\ UNCHANGED <<now, last_used, notes, resp, pc, measures, users, sessions>>

\* one turn of the deletion loop: note.delete() of the next instance
DeleteStep(p) ==
    LET m == merging[p]
    IN  /\ m.st = "deleting"
        /\ notes' = DeleteNote(notes, m.list[m.k])
        /\ merging' = [merging EXCEPT ![p] =
                IF m.k = Len(m.list)
                THEN Merging("creating", m.user, m.ids, m.list, 0, 0)
                ELSE Merging("deleting", m.user, m.ids, m.list, m.k + 1, 0)]
        /\ UNCHANGED <<now, last_used, resp, pc, measures, users, sessions>>

\* Note.objects.create, which raises, or else insert_at, which raises
FinishMerge(p) ==
    LET m == merging[p]
    IN  /\ m.st = "creating"
        /\ notes' = IF CreateRaises THEN notes
                     ELSE Created(notes, m.list[1].measure, m.list[1].pitch,
                                  CombinedDuration(m.list))
        /\ merging' = [merging EXCEPT ![p] = Answered(m, 500)]
        /\ UNCHANGED <<now, last_used, resp, pc, measures, users, sessions>>

\* POST register
Register(username, password) ==
    LET r == register(users, last_used, sessions, username, password)
    IN  /\ users' = r.users
        /\ last_used' = r.last_used
        /\ sessions' = r.sessions
        /\ UNCHANGED <<now, notes, pc, merging, measures>>
        /\ resp' = Served("register", r.out, 0, TRUE, TRUE, FALSE,
                          last_used' # last_used)

\* manage.py fill_data
FillData ==
    LET score == fill_data(measures, notes)
    IN  /\ notes' = score.notes
        /\ measures' = score.measures
        /\ UNCHANGED <<now, last_used, pc, merging, users, sessions>>
        /\ resp' = Served("fill_data", Outcome(0, "none"), 0, TRUE, TRUE,
                          notes' # notes, last_used' # last_used)

\* the requests of one signed-in client and the clock, on the filled score
Next ==
    \/ Advance
    \/ \E u \in Client : UseAction(u)
    \/ \E u \in Client, i \in RequestIds(notes), q \in PitchInputs : ChangePitch(u, i, q)
    \/ \E u \in Client, ids \in IdLists(notes) : CombinePitch(u, ids)

Spec == Init /\ [][Next]_vars

\* the requests of every user that leave the score as it is, the reading of
\* the user list, and the clock
NextGate ==
    \/ Advance
    \/ \E u \in Users : UseAction(u)
    \/ UsersList
    \/ \E u \in Users, i \in RequestIds(notes), q \in PitchInputs : ChangePitch(u, i, q)

SpecGate == InitGate /\ [][NextGate]_vars

\* requests to use_action served concurrently
NextConc ==
    \/ Advance
    \/ \E p \in Procs, u \in Users : CheckAction(p, u)
    \/ \E p \in Procs : SaveAction(p)

SpecConc == InitGate /\ [][NextConc]_vars

\* the edit requests of the client, on a score that holds pitches
NextData ==
    \/ \E u \in Client, i \in RequestIds(notes), q \in PitchInputs : ChangePitch(u, i, q)
    \/ \E u \in Client, ids \in IdLists(notes) : CombinePitch(u, ids)

SpecData == InitData /\ [][NextData]_vars

\* the requests of the client that arrive within one clock reading, on the
\* filled score
NextEdit ==
    \/ \E u \in Client : UseAction(u)
    \/ \E u \in Client, i \in RequestIds(notes), q \in PitchInputs : ChangePitch(u, i, q)
    \/ \E u \in Client, ids \in IdLists(notes) : CombinePitch(u, ids)

SpecEdit == Init /\ [][NextEdit]_vars

\* registrations, and the requests that need a session (IsAuthenticated) by
\* those who hold one
NextReg ==
    \/ Advance
    \/ \E username \in Usernames, password \in Passwords : Register(username, password)
    \/ \E u \in sessions : UseAction(u)
    \/ sessions # {} /\ UsersList

SpecReg == InitReg /\ [][NextReg]_vars

\* fill_data run between the merge requests of the client
NextFill ==
    \/ FillData
    \/ \E u \in Client, ids \in IdLists(notes) : CombinePitch(u, ids)

SpecFill == InitFill /\ [][NextFill]_vars

\* requests to combine_pitch served concurrently, on the filled score; a
\* request names notes of the score as it was filled, or none that exists
NextMerge ==
    \/ \E p \in Procs, u \in Client, ids \in IdLists(FilledNotes) : StartMerge(p, u, ids)
    \/ \E p \in Procs : GetNote(p)
    \/ \E p \in Procs : DeleteStep(p)
    \/ \E p \in Procs : FinishMerge(p)

SpecMerge == Init /\ [][NextMerge]_vars

----------------------------------------------------------------------------
(* Vocabulary of the properties *)

\* the rows of Measure m in table tbl
RowsOf(tbl, m) == {i \in DOMAIN tbl : tbl[i].measure = m}

\* the positions taken in Measure m
PositionsOf(tbl, m) == {tbl[i].order : i \in RowsOf(tbl, m)}

RECURSIVE SumDuration(_, _)
SumDuration(tbl, rows) ==
    IF rows = {} THEN 0
    ELSE LET i == CHOOSE x \in rows : TRUE
         IN  tbl[i].duration + SumDuration(tbl, rows \ {i})

\* total duration of the notes of Measure m
MeasureDuration(tbl, m) == SumDuration(tbl, RowsOf(tbl, m))

IdSet(ids) == {ids[k] : k \in 1..Len(ids)}

SameMeasure(tbl, ids) == \A a, b \in IdSet(ids) : tbl[a].measure = tbl[b].measure

SamePitch(tbl, ids) == \A a, b \in IdSet(ids) : tbl[a].pitch = tbl[b].pitch

\* the user may edit and the ids name existing notes
Resolves(u, ids) ==
    /\ user_has_action(last_used[u], now)
    /\ AllExist(notes, ids)

\* a merge request the specification accepts: two or more distinct notes of
\* one Measure that share their pitch, by a user whose action is available
Mergeable(u, ids) ==
    /\ Resolves(u, ids)
    /\ Len(ids) >= 2
    /\ Cardinality(IdSet(ids)) = Len(ids)
    /\ SameMeasure(notes, ids)
    /\ SamePitch(notes, ids)

----------------------------------------------------------------------------
(* Properties *)

\* C1: concurrent use_action requests of one user that all read the same
\* available Profile state do not both consume the action
C1_ConsumeExclusive ==
    \A p, q \in Procs :
        (/\ p # q
         /\ pc[p].st = "consumed" /\ pc[q].st = "consumed"
         /\ pc[p].user = pc[q].user)
        => pc[p].seen # pc[q].seen

\* C2: once consumed at t0 = last_used, both availability checks say not
\* available before t0 + tick and available from t0 + tick on
C2_CooldownWindow ==
    \A u \in Users :
        last_used[u] >= 0 =>
            /\ has_action(last_used[u], now) <=> (now >= last_used[u] + TickUnits)
            /\ user_has_action(last_used[u], now) <=> (now >= last_used[u] + TickUnits)

\* C3: a change_pitch or combine_pitch request that succeeds sets the
\* requesting user's last_used to the time of the request
C3_EditConsumes ==
    [][\A u \in Client :
        /\ \A i \in RequestIds(notes), q \in PitchInputs :
              (ChangePitch(u, i, q) /\ resp'.status = 200) => last_used'[u] = now
        /\ \A ids \in IdLists(notes) :
              (CombinePitch(u, ids) /\ resp'.status = 200) => last_used'[u] = now
      ]_vars

\* C4: after every request the positions of each Measure's notes are exactly
\* 0 .. count-1
C4_DensePositions ==
    \A m \in Measures :
        PositionsOf(notes, m) = 0..(Cardinality(RowsOf(notes, m)) - 1)

\* C5: a combine_pitch request that ends in failure leaves the Note table as
\* it was
C5_MergeAllOrNothing ==
    [][\A u \in Client, ids \in IdLists(notes) :
        (CombinePitch(u, ids) /\ resp'.status # 200) => notes' = notes
      ]_vars

C7_DurationPreserved ==
    [][\A u \in Client, ids \in IdLists(notes) :
        (CombinePitch(u, ids) /\ Mergeable(u, ids))
        => /\ \E c \in DOMAIN notes' \ DOMAIN notes :
                notes'[c].duration = SumDuration(notes, IdSet(ids))
           /\ \A m \in Measures :
                MeasureDuration(notes', m) = MeasureDuration(notes, m)
      ]_vars

\* C8: an accepted merge of k notes of a Measure of n notes leaves n - k + 1
\* notes there, the new one at the smallest merged position, the others with
\* their pitch and duration and in their former relative order
C8_MergeResult ==
    [][\A u \in Client, ids \in IdLists(notes) :
        (CombinePitch(u, ids) /\ Mergeable(u, ids))
        => LET m == notes[ids[1]].measure
               kept == RowsOf(notes, m) \ IdSet(ids)
           IN  /\ Cardinality(RowsOf(notes', m))
                    = Cardinality(RowsOf(notes, m)) - Len(ids) + 1
               /\ \E c \in RowsOf(notes', m) \ DOMAIN notes :
                    notes'[c].order = MinPos(NoteList(notes, ids))
               /\ \A i \in kept :
                    /\ i \in DOMAIN notes'
                    /\ notes'[i].pitch = notes[i].pitch
                    /\ notes'[i].duration = notes[i].duration
               /\ \A i, j \in kept :
                    notes[i].order < notes[j].order => notes'[i].order < notes'[j].order
      ]_vars

\* C9: a merge of notes that are not all of one Measure fails with
\* CrossMeasure and neither deletes nor creates a note
C9_CrossMeasure ==
    [][\A u \in Client, ids \in IdLists(notes) :
        (/\ CombinePitch(u, ids)
         /\ Resolves(u, ids) /\ Len(ids) >= 2
         /\ ~SameMeasure(notes, ids))
        => (resp'.error = "CrossMeasure" /\ DOMAIN notes' = DOMAIN notes)
      ]_vars

\* C10: a merge request of an available user whose ids resolve to fewer than
\* two notes (one id, or none) is answered 400 TooFew, and nothing is changed
C10_TooFew ==
    (resp.op = "combine_pitch" /\ resp.avail /\ resp.found /\ resp.n < 2)
    => /\ resp.status = 400 /\ resp.error = "TooFew"
       /\ ~resp.notes_changed
       /\ ~resp.gate_changed

\* C10 witness: a merge request naming one existing note was refused, on a
\* score from which an earlier request had removed notes
C10_Witness ==
    /\ resp.op = "combine_pitch"
    /\ resp.error = "TooFew"
    /\ resp.n = 1
    /\ DOMAIN notes # DOMAIN FilledNotes

EditOps == {"change_pitch", "combine_pitch"}

C12_FailedEditKeepsGate ==
    [][(resp'.op \in EditOps /\ resp'.status # 200) => last_used' = last_used]_vars

\* C12 witness: a merge request failed after deleting notes and its user,
\* available before, is available still
C12_Witness ==
    /\ resp.op = "combine_pitch"
    /\ resp.status = 500 /\ resp.notes_changed
    /\ \E u \in Client : last_used[u] = NULL /\ user_has_action(last_used[u], now)

\* the user consumed the action and the tick has not yet passed since
Cooling(u) == last_used[u] >= 0 /\ now < last_used[u] + TickUnits

\* C13: use_action of a cooling user is answered 400 NotAvailable and leaves
\* every last_used as it was; use_action of any other user is answered 200 and
\* sets that user's last_used to the time of the request
C13_ConsumeOutcome ==
    [][\A u \in Users :
        UseAction(u) =>
            IF Cooling(u)
            THEN /\ resp'.status = 400 /\ resp'.error = "NotAvailable"
                 /\ last_used' = last_used
            ELSE /\ resp'.status = 200
                 /\ last_used'[u] = now
      ]_vars

\* C13 witness: use_action was refused at a clock reading later than the
\* user's last use, which is still the stored one
C13_Witness ==
    /\ resp.op = "use_action" /\ resp.error = "NotAvailable"
    /\ \E u \in Users : Cooling(u) /\ last_used[u] < now

\* C14: for a user without Profile row or whose last_used is NULL, at every
\* clock reading, the remaining time is 0 and user_has_action, has_action
\* (where a Profile exists) and the flag users_list reports are all true
C14_FreshAvailable ==
    \A u \in Users :
        last_used[u] \in {NoProfile, NULL} =>
            /\ time_until_next_action(last_used[u], now) = 0
            /\ user_has_action(last_used[u], now)
            /\ last_used[u] = NULL => has_action(last_used[u], now)
            /\ users_list(last_used, now)[u]

\* C14 witness: time has passed, one user still has no Profile row and
\* another has consumed the action
C14_Witness ==
    /\ now > 0
    /\ \E u, v \in Users : last_used[u] = NoProfile /\ last_used[v] >= 0

\* C20: the last_used of a user changes only in a step that serves a
\* use_action request of that user with 200, which sets it to the time of the
\* request and leaves the record of every other user as it was; reading the
\* user list, edits, refused use_action requests and the clock change none
C20_OnlyConsumeMutates ==
    [][\A u \in Users :
        last_used'[u] # last_used[u] =>
            /\ UseAction(u)
            /\ resp'.status = 200
            /\ last_used'[u] = now
            /\ \A v \in Users \ {u} : last_used'[v] = last_used[v]
      ]_vars

\* C20 witness: the user list was read after one user had consumed the action
\* and while another had not
C20_Witness ==
    /\ resp.op = "users_list"
    /\ \E u, v \in Users : last_used[u] >= 0 /\ last_used[v] < 0

\* C15: after a change_pitch request answered 200 the stored note has the
\* pitch of the request
C15_PitchStored ==
    [][\A u \in Client, i \in RequestIds(notes), q \in PitchInputs :
        (ChangePitch(u, i, q) /\ resp'.status = 200)
        => (i \in DOMAIN notes' /\ notes'[i].pitch = q)
      ]_vars

\* C16: a change_pitch request of an available user for an existing note
\* with a pitch that is neither in PITCHES nor "rest" fails with
\* ValidationError and leaves the stored pitch as it was
C16_PitchValidated ==
    [][\A u \in Client, i \in DOMAIN notes, q \in PitchInputs \ (PITCHES \cup {"rest"}) :
        (ChangePitch(u, i, q) /\ user_has_action(last_used[u], now))
        => /\ resp'.status # 200 /\ resp'.error = "ValidationError"
           /\ notes'[i].pitch = notes[i].pitch
      ]_vars

\* C17: an edit request of an available user that names a note without row is
\* answered with the client error NotFound, and neither the Note table nor
\* the Profile table is changed
C17_NotFound ==
    (resp.op \in EditOps /\ resp.avail /\ ~resp.found)
    => /\ resp.status \in 400..499 /\ resp.error = "NotFound"
       /\ ~resp.notes_changed
       /\ ~resp.gate_changed

\* every concurrent combine_pitch request has answered
AllAnswered == \A p \in Procs : merging[p].st = "done"

\* the Measures of the notes a request names
MeasuresOf(ids) == {FilledNotes[i].measure : i \in IdSet(ids) \cap DOMAIN FilledNotes}

\* a merge request as the specification accepts it on the filled score: two
\* or more distinct existing notes of Measure m
MergeOn(ids, m) ==
    /\ Len(ids) >= 2
    /\ Cardinality(IdSet(ids)) = Len(ids)
    /\ IdSet(ids) \subseteq DOMAIN FilledNotes
    /\ MeasuresOf(ids) = {m}

\* the orders in which the requests can be served one after the other
Orders == {o \in [1..NProcs -> Procs] : \A a, b \in 1..NProcs : o[a] = o[b] => a = b}

\* the table left when the requests are served one after the other, in order o
RECURSIVE RunInOrder(_, _)
RunInOrder(tbl, o) ==
    IF o = <<>> THEN tbl
    ELSE LET m == merging[Head(o)]
         IN  RunInOrder(combine_pitch(last_used[m.user], now, tbl, m.ids).notes, Tail(o))

\* C18: when concurrent merge requests on one Measure have all answered, the
\* Note table is the one that serving them one after the other, in some
\* order, leaves
C18_MergesSerialize ==
    (AllAnswered /\ \E m \in Measures : \A p \in Procs : MergeOn(merging[p].ids, m))
    => \E o \in Orders : notes = RunInOrder(FilledNotes, o)

\* C19: the notes of a Measure that no concurrent merge request names stay as
\* they were filled, at every step; and when merge requests that each name
\* notes of one Measure, no two of the same, have all answered, the Note
\* table is the one that serving them one after the other leaves, whatever
\* the order
C19_DisjointIndependent ==
    /\ \A m \in Measures :
            (\A p \in Procs : m \notin MeasuresOf(merging[p].ids))
            => \A i \in RowsOf(FilledNotes, m) : i \in DOMAIN notes /\ notes[i] = FilledNotes[i]
    /\ (/\ AllAnswered
        /\ \A p \in Procs : \E m \in Measures : MergeOn(merging[p].ids, m)
        /\ \A p, q \in Procs :
              p # q => MeasuresOf(merging[p].ids) # MeasuresOf(merging[q].ids))
       => \A o \in Orders : notes = RunInOrder(FilledNotes, o)

\* C19 witness: two merge requests, one on each Measure, were served
\* concurrently, the second fetching its notes before the first had deleted
\* its own, and both have answered
C19_Witness ==
    /\ AllAnswered
    /\ \E p, q \in Procs :
          /\ MergeOn(merging[p].ids, 0) /\ MergeOn(merging[q].ids, 1)
          /\ merging[p].status = 500 /\ merging[q].status = 500
    /\ \A m \in Measures : Cardinality(RowsOf(notes, m)) = NOTES_PER_MEASURE - 2

\* C23: for every user with a Profile, at every clock reading, has_action
\* (read by use_action and users_list) and user_has_action (read by
\* change_pitch and combine_pitch) give the same answer
C23_PredicatesAgree ==
    \A u \in Users :
        last_used[u] # NoProfile =>
            (has_action(last_used[u], now) <=> user_has_action(last_used[u], now))

\* C21: after fill_data, whatever the tables held before, the Measures are
\* those of indices 0 .. TOTAL_MEASURES-1, each owns exactly four notes, which
\* are uninitialized rests of duration 4 at positions 0,1,2,3, no other note
\* exists, and fill_data run again leaves the same score
C21_FillData ==
    resp.op = "fill_data" =>
        /\ measures = Measures
        /\ \A i \in DOMAIN notes : notes[i].measure \in Measures
        /\ \A m \in Measures :
              /\ Cardinality(RowsOf(notes, m)) = 4
              /\ PositionsOf(notes, m) = {0, 1, 2, 3}
              /\ \A i \in RowsOf(notes, m) :
                    /\ notes[i].pitch = "rest"
                    /\ notes[i].duration = 4
                    /\ notes[i].initialized = FALSE
        /\ fill_data(measures, notes) = [measures |-> measures, notes |-> notes]

\* C21 witness: fill_data has run on a database whose Note table was not the
\* filled one (rows missing, or removed by merge requests)
C21_Witness ==
    /\ resp.op = "fill_data"
    /\ resp.notes_changed

\* users_list: for u in User.objects.all(), each with its Profile
UserProfiles == [u \in {v \in Users : users[v] >= 1} |-> last_used[u]]

\* the usernames users_list returns
Listed == DOMAIN users_list(UserProfiles, now)

\* C22: a register request with a username that exists is answered 400 with
\* a detail (that the username exists, or, without password, that both are
\* required) and leaves the User table, the Profile table and the sessions as
\* they were; after any register request no username has two rows, the user
\* of a request answered 201 is in the list users_list returns, and so is
\* every user who was in it before
C22_Register ==
    [][\A username \in Usernames, password \in Passwords :
        Register(username, password) =>
            /\ (username \in Users /\ users[username] >= 1)
                => /\ resp'.status = 400
                   /\ resp'.error = IF password = "" THEN "Required" ELSE "Exists"
                   /\ users' = users
                   /\ last_used' = last_used
                   /\ sessions' = sessions
            /\ \A u \in Users : users'[u] <= 1
            /\ resp'.status = 201 => username \in Listed'
            /\ Listed \subseteq Listed'
      ]_vars

\* C22 witness: a register request was refused because its username existed,
\* every username being registered once and holding a session
C22_Witness ==
    /\ resp.op = "register" /\ resp.status = 400 /\ resp.error = "Exists"
    /\ \A u \in Users : users[u] = 1 /\ u \in sessions /\ u \in Listed

=============================================================================
